---------------------------- MODULE Spec2Model ----------------------------
(***************************************************************************)
(* js-wacz: the WACZ class of src/index.js as a state machine.             *)
(*                                                                         *)
(* One WACZ instance after a successful construction.  The caller may call *)
(* process() and addPage(); process() is an async function whose steps are *)
(* the methods it awaits, and the worker tasks of indexWARCs complete in   *)
(* any order.  A CDXJ line is an integer of 1..MaxLine whose integer order *)
(* is the byte-lexicographic order of the lines; buffers are sequences of  *)
(* integers.                                                               *)
(***************************************************************************)
EXTENDS Integers, Sequences, FiniteSets, TLC

\* ------------------------------------------------------------------ bounds
\* Number of distinct CDXJ lines the input files may hold.
MaxLine == 3
\* ZIP_NUM_SHARED_INDEX_LIMIT, 3000 in src/index.js:25, scaled down.
ZIP_NUM_SHARED_INDEX_LIMIT == 2
\* Number of times the caller calls process().
MaxRuns == 2
\* Number of times the caller calls addPage().
MaxAddPage == 1

\* ------------------------------------------------------------- input sets
Lines == 1..MaxLine
Null == "null"
TsInputs == {Null, "valid", "invalid"}

\* First space-delimited token (the SURT key) of a CDXJ line: two
\* consecutive lines are two captures of the same url.
FirstToken(line) == (line + 1) \div 2

URLs == {FirstToken(l) : l \in Lines}

\* addPage(url): a valid url, or 0 for a string new URL() rejects.
AddPageUrls == URLs \cup {0}

\* The files on disk: 1 is x/a.warc.gz, 2 is x/b.warc.gz, 3 is y/a.warc.gz and
\* 4 is x/notes.txt.  Files are the WARCs among them.
Files == {1, 2, 3}
Paths == Files \cup {4}

Basename(f) ==
  IF f = 4 THEN "notes.txt" ELSE IF f = 2 THEN "b.warc.gz" ELSE "a.warc.gz"

ArchivePath(f) ==
  IF f = 4 THEN "archive/notes.txt"
  ELSE IF f = 2 THEN "archive/b.warc.gz" ELSE "archive/a.warc.gz"

\* filename.endsWith('.warc') || filename.endsWith('.warc.gz')
EndsWithWarc(f) == Basename(f) \in {"a.warc.gz", "b.warc.gz"}

\* glob.sync(this.file): the paths a pattern resolves to, in glob's order.
Glob(file) ==
  CASE file = "x/*"         -> <<2, 4, 1>>
    [] file = "*/a.warc.gz" -> <<1, 3>>
    [] file = "x/*.txt"     -> <<4>>
    [] OTHER                -> <<>>

VARIABLES
  options,          \* the options object given to the constructor
  constructed,      \* "pending", then whether new WACZ() "returned" or "threw"
  warnings,         \* the messages given to log.warn, in order
  ready,            \* this.ready
  detectPages,      \* this.detectPages
  url,              \* this.url
  ts,               \* this.ts
  title,            \* this.title
  description,      \* this.description
  signingUrl,       \* this.signingUrl
  signingToken,     \* this.signingToken
  datapackageExtras, \* this.datapackageExtras
  output,           \* this.output
  outputStream,     \* this.outputStream and this.archiveStream were created
  indexWARCPool,    \* this.indexWARCPool was created
  WARCs,            \* this.WARCs: the input files, in input order
  warcRecords,      \* file -> the CDXJ lines its response records index to
  cdxTree,          \* this.cdxTree: entries in key order
  cdxArray,         \* this.cdxArray
  idxArray,         \* this.idxArray
  pagesTree,        \* this.pagesTree: entries in key order
  pagesArray,       \* this.pagesArray
  resources,        \* this.resources
  zip,              \* entries appended to this.archiveStream, in order
  finalized,        \* archiveStream.finalize() was called
  outputExists,     \* a file exists at the path the output option names
  datapackageDate,  \* this.datapackageDate
  pc,               \* where the current process() call stands
  error,            \* the error the last process() call rejected with
  tasks,            \* position in WARCs -> the indexWARC task of this run
  stale,            \* tasks of a rejected indexWARCs() that still run
  warcIdx,          \* loop position of writeWARCsToZip
  runs,             \* number of process() calls so far
  runStart,         \* number of ZIP entries when the current run began
  nAddPage,         \* number of addPage() calls so far
  addPageError,     \* the error the last addPage() call threw
  fetched,          \* the requests POSTed to the signing server, in order
  answer,           \* what the signing server answered last
  signedData,       \* the object given to assertValidWACZSignatureFormat
  verdict           \* what assertValidWACZSignatureFormat did with it

\* What the constructor sets and nothing else changes.
optionVars == <<options, constructed, warnings, url, ts, title, description,
                signingToken, datapackageExtras, output, outputStream,
                indexWARCPool>>

\* The signing server and the format assertion.
signerVars == <<fetched, answer>>
assertVars == <<signedData, verdict>>

vars == <<ready, detectPages, signingUrl, WARCs, warcRecords, cdxTree, cdxArray,
          idxArray, pagesTree, pagesArray, resources, zip, finalized,
          outputExists, datapackageDate, pc, error, tasks, stale, warcIdx,
          runs, runStart, nAddPage, addPageError, optionVars, signerVars,
          assertVars>>

\* ------------------------------------------------------------ sequences
RECURSIVE SortSet(_)
SortSet(S) ==
  IF S = {} THEN <<>>
  ELSE LET m == CHOOSE x \in S : \A y \in S : x <= y
       IN <<m>> \o SortSet(S \ {m})

Range(s) == {s[i] : i \in 1..Len(s)}

IsStrictlyAscending(s) == \A i \in 1..(Len(s) - 1) : s[i] < s[i + 1]

\* Array.prototype.slice(from, to) on a 0-based array: elements from..to-1.
JsSlice(arr, from, to) == SubSeq(arr, from + 1, to)

\* --------------------------------------------------------------- hashing
\* sha256() of a buffer or file: injective on the content.
Sha256(content) == <<"sha256:", content>>

\* .byteLength of a Buffer, and of a string (which has no such property).
BufferByteLength(buf) == <<Len(buf)>>
StringByteLength(str) == <<>>

\* The number of bytes of a serialized datapackage, of a text file, and of
\* an input file on disk ((await fs.stat(warc)).size).
DatapackageByteLength(datapackage) == 1 + Len(datapackage.resources)
TextByteLength(text) == 1 + Len(text.lines)
FileSize(records, f) == Cardinality(records[f])

\* ------------------------------------------------------------------ gzip
\* One gzip member: a header, the deflated chunk, a trailer holding its size.
Gzip(chunk) == <<0>> \o chunk \o <<0 - (Len(chunk) + 1)>>

IsGzipMember(m) ==
  /\ Len(m) >= 2
  /\ m[1] = 0
  /\ m[Len(m)] = 0 - (Len(m) - 1)
  /\ \A i \in 2..(Len(m) - 1) : m[i] > 0

Gunzip(m) == SubSeq(m, 2, Len(m) - 1)

\* ---------------------------------------------------------------- BTree
\* sorted-btree: the entries of a tree, ascending by key.
TreeHas(tree, key) == \E i \in 1..Len(tree) : tree[i].key = key

\* Faulty variant: set() instead of setIfNotPresent(), on a tree that keeps both entries.
SetEvenIfPresent(tree, key, value) ==
  LET n == Cardinality({i \in 1..Len(tree) : tree[i].key < key})
  IN SubSeq(tree, 1, n) \o <<[key |-> key, value |-> value]>>
       \o SubSeq(tree, n + 1, Len(tree))

\* Faulty variant: an insertion-ordered map instead of a sorted tree.
SetIfNotPresentUnsorted(tree, key, value) ==
  IF \E i \in 1..Len(tree) : tree[i].key = key THEN tree
  ELSE Append(tree, [key |-> key, value |-> value])

\* Faulty variant: set(), which replaces the value of a key that is present.
SetOverwrites(tree, key, value) ==
  IF TreeHas(tree, key)
  THEN [i \in 1..Len(tree) |->
          IF tree[i].key = key THEN [key |-> key, value |-> value] ELSE tree[i]]
  ELSE LET n == Cardinality({i \in 1..Len(tree) : tree[i].key < key})
       IN SubSeq(tree, 1, n) \o <<[key |-> key, value |-> value]>>
            \o SubSeq(tree, n + 1, Len(tree))

SetIfNotPresent(tree, key, value) ==
  IF TreeHas(tree, key) THEN tree
  ELSE LET n == Cardinality({i \in 1..Len(tree) : tree[i].key < key})
       IN SubSeq(tree, 1, n) \o <<[key |-> key, value |-> value]>>
            \o SubSeq(tree, n + 1, Len(tree))

KeysArray(tree) == [i \in 1..Len(tree) |-> tree[i].key]

ValuesArray(tree) == [i \in 1..Len(tree) |-> tree[i].value]

\* ------------------------------------------------------- indexWARC worker
\* A response record is detected as a page when it is an HTML capture: here
\* the first capture of each url.
IsPage(line) == line % 2 = 1

WorkerPage(f, line) ==
  [url |-> FirstToken(line), id |-> Basename(f), ts |-> "iso"]

\* The result of the worker on file f: its CDXJ lines, and its pages when
\* page detection is on.
IndexWARC(records, f, detect) ==
  [cdx   |-> SortSet(records[f]),
   pages |-> IF detect
             THEN LET ls == SortSet({l \in records[f] : IsPage(l)})
                  IN [i \in 1..Len(ls) |-> WorkerPage(f, ls[i])]
             ELSE <<>>]

\* for (const value of results.cdx) this.cdxTree.setIfNotPresent(value, true)
RECURSIVE MergeCdx(_, _)
MergeCdx(tree, cdx) ==
  IF cdx = <<>> THEN tree
  ELSE MergeCdx(SetIfNotPresent(tree, Head(cdx), TRUE), Tail(cdx))

\* for (const value of results.pages) this.pagesTree.setIfNotPresent(value.url, value)
RECURSIVE MergePages(_, _)
MergePages(tree, pages) ==
  IF pages = <<>> THEN tree
  ELSE MergePages(SetIfNotPresent(tree, Head(pages).url, Head(pages)), Tail(pages))

\* ------------------------------------------------------ ZipNum sharding
\* upperBound of the slice that starts at i, in an array of len lines.
UpperBound(i, len) ==
  LET upperBound == i + ZIP_NUM_SHARED_INDEX_LIMIT
  IN IF upperBound > len THEN len - 1 ELSE upperBound

IdxLine(firstLine, idxOffset, gz) ==
  [key      |-> FirstToken(firstLine),
   offset   |-> idxOffset,
   length   |-> Len(gz),
   digest   |-> Sha256(gz),
   filename |-> "index.cdx.gz"]

\* Faulty variant: what is left of the array is gzipped even when nothing is left.
RECURSIVE ShardLoopGzipsNothing(_, _, _, _, _)
ShardLoopGzipsNothing(arr, i, idxOffset, cdx, idx) ==
  IF i >= Len(arr) THEN [cdx |-> cdx \o Gzip(<<>>), idxArray |-> idx]
  ELSE LET cdxSlice        == JsSlice(arr, i, UpperBound(i, Len(arr)))
           cdxSliceGzipped == Gzip(cdxSlice)
       IN ShardLoopGzipsNothing(arr, i + ZIP_NUM_SHARED_INDEX_LIMIT,
                    idxOffset + Len(cdxSliceGzipped),
                    cdx \o cdxSliceGzipped,
                    Append(idx, IdxLine(arr[i + 1], idxOffset, cdxSliceGzipped)))

\* The for loop of writeIndexesToZip from position i on: the index.cdx.gz
\* buffer and this.idxArray it ends with.
RECURSIVE ShardLoop(_, _, _, _, _)
ShardLoop(arr, i, idxOffset, cdx, idx) ==
  IF i >= Len(arr) THEN [cdx |-> cdx, idxArray |-> idx]
  ELSE LET cdxSlice        == JsSlice(arr, i, UpperBound(i, Len(arr)))
           cdxSliceGzipped == Gzip(cdxSlice)
       IN ShardLoop(arr, i + ZIP_NUM_SHARED_INDEX_LIMIT,
                    idxOffset + Len(cdxSliceGzipped),
                    cdx \o cdxSliceGzipped,
                    Append(idx, IdxLine(arr[i + 1], idxOffset, cdxSliceGzipped)))

IdxHeader == "!meta 0 {\"format\": \"cdxj-gzip-1.0\", \"filename\": \"index.cdx.gz\"}"

PagesHeader == "{\"format\": \"json-pages-1.0\", \"id\": \"pages\", \"title\": \"All Pages\"}"

\* A text file: its first line and the lines after it.
Text(header, lines) == [header |-> header, lines |-> lines]

Resource(name, path, content, bytes) ==
  [name |-> name, path |-> path, hash |-> Sha256(content), bytes |-> bytes]

Entry(name, data) == [name |-> name, data |-> data]

\* The bytes of input file f.
WarcBytes(records, f) == [warc |-> f, records |-> records[f]]

\* ------------------------------------------------------------ JS values
\* A value of a signing server's JSON: a missing key, a number other than 0,
\* or a string.  A string is a sequence of pieces: "A" is a character of the
\* Base64 alphabet, "=" the padding character, "<sha256>" a run "sha256:"
\* and 64 hex digits, "<date>" a run the ISO 8601 pattern matches, "<domain>"
\* a run the domain pattern matches, "<cert>" one PEM certificate, and any
\* other piece a character none of the patterns accepts.
Undefined == [type |-> "undefined"]
Num == [type |-> "number"]
Str(chars) == [type |-> "string", chars |-> chars]

\* if (val): undefined and '' are falsy.
Truthy(val) == val.type = "number" \/ (val.type = "string" /\ val.chars # <<>>)

\* val?.constructor === String
MatchString(val) == val.type = "string"

\* A pattern without ^ and $: it matches when a run it accepts is anywhere
\* in the string.
MatchISO8601Date(val) ==
  val.type = "string" /\ \E i \in 1..Len(val.chars) : val.chars[i] = "<date>"

MatchDomainName(val) ==
  val.type = "string" /\ \E i \in 1..Len(val.chars) : val.chars[i] = "<domain>"

\* /^sha256:[A-Fa-f0-9]{64}$/
MatchSHA256WithPrefix(val) == val.type = "string" /\ val.chars = <<"<sha256>">>

\* /^(?:[A-Za-z0-9+/]{4})*(?:[A-Za-z0-9+/]{2}==|[A-Za-z0-9+/]{3}=)?$/
MatchBase64(val) ==
  /\ val.type = "string"
  /\ LET s == val.chars
         n == Len(s)
     IN /\ n % 4 = 0
        /\ \A i \in 1..(n - 2) : s[i] = "A"
        /\ n > 0 => \/ s[n - 1] = "A" /\ s[n] \in {"A", "="}
                    \/ s[n - 1] = "=" /\ s[n] = "="

\* new X509Certificate(val) does not throw.
MatchPEMCertificateChain(val) == val.type = "string" /\ val.chars = <<"<cert>">>

\* The keys of a signing server's JSON the assertion may read.
SignatureKeys ==
  {"hash", "created", "software", "signature", "publicKey", "domain",
   "domainCert", "timeSignature", "timestampCert", "crossSignedCert"}

\* The assertion assertValidWACZSignatureFormat runs on key.
Matcher(key, val) ==
  CASE key = "hash"      -> MatchSHA256WithPrefix(val)
    [] key = "created"   -> MatchISO8601Date(val)
    [] key = "software"  -> MatchString(val)
    [] key \in {"signature", "publicKey", "timeSignature"} -> MatchBase64(val)
    [] key = "domain"    -> MatchDomainName(val)
    [] OTHER             -> MatchPEMCertificateChain(val)

\* propsToValidate of assertValidWACZSignatureFormat(data).
PropsToValidate(data) ==
  {"hash", "created", "software", "signature"}
    \cup (IF Truthy(data.publicKey) THEN {"publicKey"}
          ELSE {"domain", "domainCert", "timeSignature", "timestampCert"})
    \cup (IF Truthy(data.crossSignedCert) THEN {"crossSignedCert"} ELSE {})

\* assertValidWACZSignatureFormat(data) returns instead of throwing.
AssertValidWACZSignatureFormat(data) ==
  \A key \in PropsToValidate(data) : Matcher(key, data[key])

\* ------------------------------------------------------------- process()
\* Faulty variant: the WARCs are written before pages.jsonl.
ProcessStepsWarcsFirst ==
  <<"indexWARCs", "harvestArraysFromTrees", "writeIndexesToZip", "writeWARCsToZip",
    "writePagesToZip", "writeDatapackageToZip", "writeDatapackageDigestToZip",
    "finalize">>

ProcessSteps ==
  <<"indexWARCs", "harvestArraysFromTrees", "writeIndexesToZip", "writePagesToZip",
    "writeWARCsToZip", "writeDatapackageToZip", "writeDatapackageDigestToZip",
    "finalize">>

\* The step process() runs once `step` has returned.
After(step) ==
  LET i == CHOOSE k \in 1..Len(ProcessSteps) : ProcessSteps[k] = step
  IN IF i = Len(ProcessSteps) THEN "done" ELSE ProcessSteps[i + 1]

Running == pc \in Range(ProcessSteps)

\* archiveStream.append() on a finalized archive emits an 'error' event
\* nobody listens to, which throws at the call.
AppendThrows == finalized

\* The contents of the two input files: file 1 holds the lines up to a, file 2
\* the lines from b on (none, disjoint, or overlapping captures).
WarcContents ==
  {[f \in Files |-> IF f = 1 THEN {l \in Lines : l <= a} ELSE {l \in Lines : l >= b}] :
     a \in 0..MaxLine, b \in 1..(MaxLine + 1)}

NoTask == [state |-> "none", detectPages |-> FALSE]

\* A task process() no longer waits for; what it was dispatched with is kept.
Settled(task) == [task EXCEPT !.state = "none"]

\* A JSON object of a signing server without any of the keys.
NoJson == [key \in SignatureKeys |-> Undefined]

\* An anonymous signature as authsign returns it, the same without its
\* signature, and a domain-identified signature.
AnonymousSignature ==
  [NoJson EXCEPT !.hash = Str(<<"<sha256>">>), !.created = Str(<<"<date>">>),
                 !.software = Str(<<"a", "u", "t", "h", "s", "i", "g", "n">>),
                 !.signature = Str(<<"A", "A", "A", "=">>),
                 !.publicKey = Str(<<"A", "A", "=", "=">>)]

UnsignedSignature == [AnonymousSignature EXCEPT !.signature = Undefined]

DomainSignature ==
  [AnonymousSignature EXCEPT !.publicKey = Undefined,
                             !.domain = Str(<<"<domain>">>),
                             !.domainCert = Str(<<"<cert>">>),
                             !.timeSignature = Str(<<"A", "A", "A", "A">>),
                             !.timestampCert = Str(<<"<cert>">>)]

\* No request was sent to the signing server.
NoAnswer == [kind |-> "none", status |-> 0, json |-> NoJson]

\* What fetch() and response.json() may give: fetch throws, or the server
\* answers with a status and a JSON body.
SignerAnswers ==
  {[kind |-> "network error", status |-> 0, json |-> NoJson],
   [kind |-> "http", status |-> 500, json |-> NoJson]}
  \cup {[kind |-> "http", status |-> 200, json |-> j] :
          j \in {AnonymousSignature, UnsignedSignature, DomainSignature}}

\* ---------------------------------------------------------- constructor
\* Option values.  Null is an option that was not given.  "false" is the
\* boolean false and "foo" a value that is no boolean, no url and no date.
FileOptions == {Null, "x/*", "*/a.warc.gz", "x/*.txt"}
OutputOptions == {Null, "out.wacz", "out.zip"}
DetectPagesOptions == {Null, "false", "foo"}
UrlOptions == {Null, "https://LIL.law.harvard.edu", "foo"}
TsOptions == {Null, "2023-01-01", "foo"}
TitleOptions == {Null, " FOO "}
DescriptionOptions == {Null, " BAR "}
SigningUrlOptions == {Null, "https://signer.example/sign", "foo"}
SigningTokenOptions == {Null, "token"}
ExtrasOptions == {Null, "{context: 'test'}", "circular"}

\* new URL(value) does not throw, and the href it has.
IsURL(value) == value \in {"https://LIL.law.harvard.edu", "https://signer.example/sign"}
Href(value) ==
  IF value = "https://LIL.law.harvard.edu" THEN "https://lil.law.harvard.edu/"
  ELSE value

\* new Date(value).toISOString() does not throw, and what it returns.
IsDate(value) == value = "2023-01-01"
ToISOString(value) ==
  IF value = "2023-01-01" THEN "2023-01-01T00:00:00.000Z" ELSE value

\* String(value).trim()
Trim(value) ==
  CASE value = " FOO " -> "FOO"
    [] value = " BAR " -> "BAR"
    [] OTHER           -> value

\* JSON.stringify(value) does not throw.
IsSerializable(value) == value # "circular"

\* new Date().toISOString() in the field initializer of ts.
ConstructionTime == "time of construction"

\* `${process.env.PWD}${sep}archive.wacz`
DefaultOutput == "PWD/archive.wacz"

\* output.toLocaleLowerCase().endsWith('.wacz')
EndsWithWacz(path) == path \in {"out.wacz", DefaultOutput}

RECURSIVE FilterWARCs(_)
FilterWARCs(results) ==
  IF results = <<>> THEN <<>>
  ELSE (IF EndsWithWarc(Head(results)) THEN <<Head(results)>> ELSE <<>>)
         \o FilterWARCs(Tail(results))

\* What the glob of options.file resolves to, without the files that are no
\* WARC: b.warc.gz listed before a.warc.gz.
InputFiles == FilterWARCs(Glob("x/*"))

\* filterBlockingOptions with the unlink moved before the test of the suffix.
FilterBlockingOptionsUnlinksFirst(opts) ==
  LET found == IF opts.file = Null THEN <<>> ELSE FilterWARCs(Glob(opts.file))
      path  == IF opts.output = Null THEN DefaultOutput ELSE opts.output
  IN [WARCs  |-> found,
      output |-> IF found = <<>> THEN Null ELSE path,
      threw  |-> found = <<>> \/ ~EndsWithWacz(path),
      unlink |-> found # <<>>]

\* filterBlockingOptions: what it leaves in this.WARCs and this.output,
\* whether it throws, and whether it unlinks the output path.
FilterBlockingOptions(opts) ==
  LET found == IF opts.file = Null THEN <<>> ELSE FilterWARCs(Glob(opts.file))
      path  == IF opts.output = Null THEN DefaultOutput ELSE opts.output
  IN [WARCs  |-> found,
      output |-> IF found = <<>> THEN Null ELSE path,
      threw  |-> found = <<>> \/ ~EndsWithWacz(path),
      unlink |-> found # <<>> /\ EndsWithWacz(path)]

\* Faulty variant: the token is kept whether or not a signingUrl was accepted.
FilterNonBlockingOptionsKeepsToken(opts) ==
  LET surl == IF opts.signingUrl # Null /\ IsURL(opts.signingUrl)
              THEN Href(opts.signingUrl) ELSE Null
  IN [detectPages |-> opts.detectPages # "false",
      url         |-> IF opts.url # Null /\ IsURL(opts.url) THEN Href(opts.url) ELSE Null,
      ts          |-> IF opts.ts # Null /\ IsDate(opts.ts)
                      THEN ToISOString(opts.ts) ELSE ConstructionTime,
      title       |-> IF opts.title # Null THEN Trim(opts.title) ELSE Null,
      description |-> IF opts.description # Null THEN Trim(opts.description) ELSE Null,
      signingUrl  |-> surl,
      signingToken |-> opts.signingToken,
      datapackageExtras |->
        IF opts.datapackageExtras # Null /\ IsSerializable(opts.datapackageExtras)
        THEN opts.datapackageExtras ELSE Null,
      warnings    |->
        (IF opts.url # Null /\ ~IsURL(opts.url)
         THEN <<"\"url\" provided is invalid. Skipping.">> ELSE <<>>)
        \o (IF opts.ts # Null /\ ~IsDate(opts.ts)
            THEN <<"\"ts\" provided is invalid. Skipping.">> ELSE <<>>)
        \o (IF opts.signingUrl # Null /\ ~IsURL(opts.signingUrl)
            THEN <<"\"signingUrl\" provided is not a valid url. Skipping.">> ELSE <<>>)
        \o (IF opts.datapackageExtras # Null /\ ~IsSerializable(opts.datapackageExtras)
            THEN <<"\"datapackageExtras\" provided is not JSON-serializable object. Skipping.">>
            ELSE <<>>)]

\* filterNonBlockingOptions: the fields it sets and the warnings it logs.
FilterNonBlockingOptions(opts) ==
  LET surl == IF opts.signingUrl # Null /\ IsURL(opts.signingUrl)
              THEN Href(opts.signingUrl) ELSE Null
  IN [detectPages |-> opts.detectPages # "false",
      url         |-> IF opts.url # Null /\ IsURL(opts.url) THEN Href(opts.url) ELSE Null,
      ts          |-> IF opts.ts # Null /\ IsDate(opts.ts)
                      THEN ToISOString(opts.ts) ELSE ConstructionTime,
      title       |-> IF opts.title # Null THEN Trim(opts.title) ELSE Null,
      description |-> IF opts.description # Null THEN Trim(opts.description) ELSE Null,
      signingUrl  |-> surl,
      signingToken |-> IF opts.signingToken # Null /\ surl # Null
                       THEN opts.signingToken ELSE Null,
      datapackageExtras |->
        IF opts.datapackageExtras # Null /\ IsSerializable(opts.datapackageExtras)
        THEN opts.datapackageExtras ELSE Null,
      warnings    |->
        (IF opts.url # Null /\ ~IsURL(opts.url)
         THEN <<"\"url\" provided is invalid. Skipping.">> ELSE <<>>)
        \o (IF opts.ts # Null /\ ~IsDate(opts.ts)
            THEN <<"\"ts\" provided is invalid. Skipping.">> ELSE <<>>)
        \o (IF opts.signingUrl # Null /\ ~IsURL(opts.signingUrl)
            THEN <<"\"signingUrl\" provided is not a valid url. Skipping.">> ELSE <<>>)
        \o (IF opts.datapackageExtras # Null /\ ~IsSerializable(opts.datapackageExtras)
            THEN <<"\"datapackageExtras\" provided is not JSON-serializable object. Skipping.">>
            ELSE <<>>)]

\* The options of a caller who gives the input files and the output path.
DefaultOptions ==
  [file |-> "x/*", output |-> "out.wacz", detectPages |-> Null, url |-> Null,
   ts |-> Null, title |-> Null, description |-> Null, signingUrl |-> Null,
   signingToken |-> Null, datapackageExtras |-> Null]

\* The state new WACZ(options) returns with, for a caller who gives the
\* input files and the output path and may turn page detection off and name
\* a signing server.
Init ==
  /\ ready = TRUE
  /\ detectPages \in BOOLEAN
  /\ signingUrl \in {Null, "https://signer.example/sign"}
  /\ options = [DefaultOptions EXCEPT
                  !.detectPages = IF detectPages THEN Null ELSE "false",
                  !.signingUrl = signingUrl]
  /\ constructed = "returned"
  /\ warnings = <<>>
  /\ url = Null
  /\ ts = ConstructionTime
  /\ title = Null
  /\ description = Null
  /\ signingToken = Null
  /\ datapackageExtras = Null
  /\ output = "out.wacz"
  /\ outputStream = TRUE
  /\ indexWARCPool = TRUE
  /\ WARCs = InputFiles
  /\ warcRecords \in WarcContents
  /\ cdxTree = <<>>
  /\ cdxArray = <<>>
  /\ idxArray = <<>>
  /\ pagesTree = <<>>
  /\ pagesArray = <<>>
  /\ resources = <<>>
  /\ zip = <<>>
  /\ finalized = FALSE
  /\ outputExists = TRUE
  /\ datapackageDate = Null
  /\ pc = "idle"
  /\ error = Null
  /\ tasks = [i \in 1..Len(WARCs) |-> NoTask]
  /\ stale = {}
  /\ warcIdx = 0
  /\ runs = 0
  /\ runStart = 0
  /\ nAddPage = 0
  /\ addPageError = Null
  /\ fetched = <<>>
  /\ answer = NoAnswer
  /\ signedData = NoJson
  /\ verdict = "none"

\* The field initializers of the class, before the constructor body runs on
\* opts; a file may exist at the output path.  Nothing was sent to a signing
\* server.
FieldInitializers(opts) ==
  /\ options = opts
  /\ constructed = "pending"
  /\ warnings = <<>>
  /\ ready = FALSE
  /\ detectPages = TRUE
  /\ url = Null
  /\ ts = ConstructionTime
  /\ title = Null
  /\ description = Null
  /\ signingUrl = Null
  /\ signingToken = Null
  /\ datapackageExtras = Null
  /\ output = Null
  /\ outputStream = FALSE
  /\ indexWARCPool = FALSE
  /\ WARCs = <<>>
  /\ cdxTree = <<>>
  /\ cdxArray = <<>>
  /\ idxArray = <<>>
  /\ pagesTree = <<>>
  /\ pagesArray = <<>>
  /\ resources = <<>>
  /\ zip = <<>>
  /\ finalized = FALSE
  /\ outputExists \in BOOLEAN
  /\ datapackageDate = Null
  /\ pc = "idle"
  /\ error = Null
  /\ tasks = <<>>
  /\ stale = {}
  /\ warcIdx = 0
  /\ runs = 0
  /\ runStart = 0
  /\ nAddPage = 0
  /\ addPageError = Null
  /\ fetched = <<>>
  /\ answer = NoAnswer

\* new WACZ(options): filterBlockingOptions, filterNonBlockingOptions, then
\* ready, the output streams (which create the output file) and the pool.
Constructor ==
  /\ constructed = "pending"
  /\ LET blocking    == FilterBlockingOptions(options)
         nonBlocking == FilterNonBlockingOptions(options)
     IN /\ WARCs' = blocking.WARCs
        /\ output' = blocking.output
        /\ IF blocking.threw
           THEN /\ constructed' = "threw"
                /\ outputExists' = (outputExists /\ ~blocking.unlink)
                /\ UNCHANGED <<ready, detectPages, url, ts, title, description,
                               signingUrl, signingToken, datapackageExtras,
                               warnings, outputStream, indexWARCPool, tasks>>
           ELSE /\ constructed' = "returned"
                /\ detectPages' = nonBlocking.detectPages
                /\ url' = nonBlocking.url
                /\ ts' = nonBlocking.ts
                /\ title' = nonBlocking.title
                /\ description' = nonBlocking.description
                /\ signingUrl' = nonBlocking.signingUrl
                /\ signingToken' = nonBlocking.signingToken
                /\ datapackageExtras' = nonBlocking.datapackageExtras
                /\ warnings' = nonBlocking.warnings
                /\ ready' = TRUE
                /\ outputStream' = TRUE
                /\ outputExists' = TRUE
                /\ indexWARCPool' = TRUE
                /\ tasks' = [i \in 1..Len(blocking.WARCs) |-> NoTask]
  /\ UNCHANGED <<options, warcRecords, cdxTree, cdxArray, idxArray, pagesTree,
                 pagesArray, resources, zip, finalized, datapackageDate, pc,
                 error, stale, warcIdx, runs, runStart, nAddPage, addPageError,
                 signerVars, assertVars>>

\* process() rejects with message msg: nothing after the failing step runs.
Reject(msg) ==
  /\ pc' = "failed"
  /\ error' = msg

\* process(), up to its first await: readyStateCheck, then indexWARCs
\* dispatches one worker task per input file with the current detectPages.
ProcessStart ==
  /\ UNCHANGED <<optionVars, signerVars, assertVars, addPageError>>
  /\ constructed = "returned"
  /\ ~Running
  /\ runs < MaxRuns
  /\ runs' = runs + 1
  /\ runStart' = Len(zip)
  /\ IF ready # TRUE
     THEN /\ Reject("Not enough information was provided for processing to start.")
          /\ UNCHANGED tasks
     ELSE /\ pc' = ProcessSteps[1]
          /\ error' = Null
          /\ tasks' = [i \in 1..Len(WARCs) |->
                         [state |-> "running", detectPages |-> detectPages]]
  /\ UNCHANGED <<ready, detectPages, signingUrl, WARCs, warcRecords, cdxTree,
                 cdxArray, idxArray, pagesTree, pagesArray, resources, zip,
                 finalized, outputExists, datapackageDate, stale, warcIdx, nAddPage>>

\* Faulty variant: Promise.race, which settles with the first promise.
PromiseRaceResolves(promises, i) == TRUE

\* Promise.all over the promises resolves when promise i does: every other
\* promise has resolved.
PromiseAllResolves(promises, i) ==
  \A j \in DOMAIN promises \ {i} : promises[j].state = "done"

\* The task of WARCs[i] resolves: its results are merged into the trees;
\* Promise.all resolves with the last of them.
TaskResolve(i) ==
  /\ UNCHANGED <<optionVars, signerVars, assertVars, addPageError>>
  /\ pc = "indexWARCs"
  /\ tasks[i].state = "running"
  /\ LET results == IndexWARC(warcRecords, WARCs[i], tasks[i].detectPages)
     IN /\ cdxTree' = MergeCdx(cdxTree, results.cdx)
        /\ pagesTree' = MergePages(pagesTree, results.pages)
  /\ IF PromiseAllResolves(tasks, i)
     THEN /\ pc' = After("indexWARCs")
          /\ tasks' = [j \in DOMAIN tasks |-> Settled(tasks[j])]
     ELSE /\ pc' = pc
          /\ tasks' = [tasks EXCEPT ![i].state = "done"]
  /\ UNCHANGED <<ready, detectPages, signingUrl, WARCs, warcRecords, cdxArray,
                 idxArray, pagesArray, resources, zip, finalized, outputExists,
                 datapackageDate, error, stale, warcIdx, runs, runStart, nAddPage>>

\* The task of WARCs[i] rejects: Promise.all rejects at once and process()
\* with it; the tasks still running are not cancelled.
TaskReject(i) ==
  /\ UNCHANGED <<optionVars, signerVars, assertVars, addPageError>>
  /\ pc = "indexWARCs"
  /\ tasks[i].state = "running"
  /\ Reject("indexWARC failed.")
  /\ stale' = stale \cup {[file |-> WARCs[j], detectPages |-> tasks[j].detectPages] :
                            j \in {k \in DOMAIN tasks : k # i /\ tasks[k].state = "running"}}
  /\ tasks' = [j \in DOMAIN tasks |-> Settled(tasks[j])]
  /\ UNCHANGED <<ready, detectPages, signingUrl, WARCs, warcRecords, cdxTree,
                 cdxArray, idxArray, pagesTree, pagesArray, resources, zip,
                 finalized, outputExists, datapackageDate, warcIdx, runs,
                 runStart, nAddPage>>

\* A task that outlived its indexWARCs() resolves: its callback still merges.
StaleResolve(t) ==
  /\ UNCHANGED <<optionVars, signerVars, assertVars, addPageError>>
  /\ t \in stale
  /\ stale' = stale \ {t}
  /\ LET results == IndexWARC(warcRecords, t.file, t.detectPages)
     IN /\ cdxTree' = MergeCdx(cdxTree, results.cdx)
        /\ pagesTree' = MergePages(pagesTree, results.pages)
  /\ UNCHANGED <<ready, detectPages, signingUrl, WARCs, warcRecords, cdxArray,
                 idxArray, pagesArray, resources, zip, finalized, outputExists,
                 datapackageDate, pc, error, tasks, warcIdx, runs, runStart, nAddPage>>

\* A task that outlived its indexWARCs() rejects: nobody hears of it.
StaleReject(t) ==
  /\ UNCHANGED <<optionVars, signerVars, assertVars, addPageError>>
  /\ t \in stale
  /\ stale' = stale \ {t}
  /\ UNCHANGED <<ready, detectPages, signingUrl, WARCs, warcRecords, cdxTree,
                 cdxArray, idxArray, pagesTree, pagesArray, resources, zip,
                 finalized, outputExists, datapackageDate, pc, error, tasks,
                 warcIdx, runs, runStart, nAddPage>>

HarvestArraysFromTrees ==
  /\ UNCHANGED <<optionVars, signerVars, assertVars, addPageError>>
  /\ pc = "harvestArraysFromTrees"
  /\ ready = TRUE
  /\ cdxArray' = KeysArray(cdxTree)
  /\ cdxTree' = <<>>
  /\ pagesArray' = ValuesArray(pagesTree)
  /\ pagesTree' = <<>>
  /\ pc' = After("harvestArraysFromTrees")
  /\ UNCHANGED <<ready, detectPages, signingUrl, WARCs, warcRecords, idxArray,
                 resources, zip, finalized, outputExists, datapackageDate, error,
                 tasks, stale, warcIdx, runs, runStart, nAddPage>>

\* writeIndexesToZip: the shard loop fills this.idxArray, then index.cdx.gz
\* and index.idx are appended and recorded.
WriteIndexesToZip ==
  /\ UNCHANGED <<optionVars, signerVars, assertVars, addPageError>>
  /\ pc = "writeIndexesToZip"
  /\ ready = TRUE
  /\ LET out == ShardLoop(cdxArray, 0, 0, <<>>, idxArray)
         idx == Text(IdxHeader, out.idxArray)
     IN /\ idxArray' = out.idxArray
        /\ IF AppendThrows
           THEN /\ Reject("An error occurred while generating \"indexes/index.cdx.gz\".")
                /\ UNCHANGED <<zip, resources>>
           ELSE /\ zip' = zip \o <<Entry("indexes/index.cdx.gz", out.cdx),
                                   Entry("indexes/index.idx", idx)>>
                /\ resources' = resources \o
                     <<Resource("index.cdx.gz", "indexes/index.cdx.gz", out.cdx,
                                BufferByteLength(out.cdx)),
                       Resource("index.idx", "indexes/index.idx", idx,
                                StringByteLength(idx))>>
                /\ pc' = After("writeIndexesToZip")
                /\ UNCHANGED error
  /\ UNCHANGED <<ready, detectPages, signingUrl, WARCs, warcRecords, cdxTree,
                 cdxArray, pagesTree, pagesArray, finalized, outputExists,
                 datapackageDate, tasks, stale, warcIdx, runs, runStart, nAddPage>>

WritePagesToZip ==
  /\ UNCHANGED <<optionVars, signerVars, assertVars, addPageError>>
  /\ pc = "writePagesToZip"
  /\ ready = TRUE
  /\ LET pagesJSONL == Text(PagesHeader, pagesArray)
     IN IF AppendThrows
        THEN /\ Reject("An error occurred while generating \"pages/pages.jsonl\".")
             /\ UNCHANGED <<zip, resources>>
        ELSE /\ zip' = Append(zip, Entry("pages/pages.jsonl", pagesJSONL))
             /\ resources' = Append(resources,
                  Resource("pages.jsonl", "pages/pages.jsonl", pagesJSONL,
                           StringByteLength(pagesJSONL)))
             /\ pc' = After("writePagesToZip")
             /\ UNCHANGED error
  /\ UNCHANGED <<ready, detectPages, signingUrl, WARCs, warcRecords, cdxTree,
                 cdxArray, idxArray, pagesTree, pagesArray, finalized,
                 outputExists, datapackageDate, tasks, stale, warcIdx, runs,
                 runStart, nAddPage>>

\* One turn of the loop of writeWARCsToZip: the file's stream is appended,
\* then the file is hashed and sized, which fails when it cannot be read.
WriteWARCToZip(readable) ==
  /\ UNCHANGED <<optionVars, signerVars, assertVars, addPageError>>
  /\ pc = "writeWARCsToZip"
  /\ ready = TRUE
  /\ LET warc == WARCs[warcIdx + 1]
         data == WarcBytes(warcRecords, warc)
     IN /\ zip' = IF AppendThrows THEN zip ELSE Append(zip, Entry(ArchivePath(warc), data))
        /\ IF AppendThrows \/ ~readable
           THEN /\ Reject("An error occurred while writing a WARC to ZIP.")
                /\ warcIdx' = 0
                /\ UNCHANGED resources
           ELSE /\ resources' = Append(resources,
                     Resource(Basename(warc), ArchivePath(warc), data,
                              <<FileSize(warcRecords, warc)>>))
                /\ IF warcIdx + 1 = Len(WARCs)
                   THEN pc' = After("writeWARCsToZip") /\ warcIdx' = 0
                   ELSE pc' = pc /\ warcIdx' = warcIdx + 1
                /\ UNCHANGED error
  /\ UNCHANGED <<ready, detectPages, signingUrl, WARCs, warcRecords, cdxTree,
                 cdxArray, idxArray, pagesTree, pagesArray, finalized,
                 outputExists, datapackageDate, tasks, stale, runs, runStart, nAddPage>>

\* new Date().toISOString() during run r.
Now(r) == ToString(r)

\* The datapackage object of writeDatapackageToZip as JSON.stringify writes
\* it: a key that is only set under a condition holds <<value>> when it was
\* set and <<>> when it was not.
Datapackage(created, res) ==
  [created      |-> created,
   wacz_version |-> "1.1.1",
   software     |-> "js-wacz",
   resources    |-> res,
   title        |-> IF title # Null /\ title # "" THEN title ELSE "WACZ",
   description  |-> IF description # Null THEN description ELSE "",
   mainPageUrl  |-> IF url # Null THEN <<url>> ELSE <<>>,
   mainPageDate |-> IF ts # Null THEN <<ts>> ELSE <<>>,
   extras       |-> IF datapackageExtras # Null THEN <<datapackageExtras>> ELSE <<>>]

WriteDatapackageToZip ==
  /\ UNCHANGED <<optionVars, signerVars, assertVars, addPageError>>
  /\ pc = "writeDatapackageToZip"
  /\ ready = TRUE
  /\ datapackageDate' = Now(runs)
  /\ LET serializedDatapackage == Datapackage(datapackageDate', resources)
     IN IF AppendThrows
        THEN /\ Reject("An error occurred while generating \"datapackage.json\".")
             /\ UNCHANGED <<zip, resources>>
        ELSE /\ zip' = Append(zip, Entry("datapackage.json", serializedDatapackage))
             /\ resources' = Append(resources,
                  Resource("datapackage.json", "datapackage.json",
                           serializedDatapackage,
                           <<DatapackageByteLength(serializedDatapackage)>>))
             /\ pc' = After("writeDatapackageToZip")
             /\ UNCHANGED error
  /\ UNCHANGED <<ready, detectPages, signingUrl, WARCs, warcRecords, cdxTree,
                 cdxArray, idxArray, pagesTree, pagesArray, finalized,
                 outputExists, tasks, stale, warcIdx, runs, runStart, nAddPage>>

\* resources.find(entry => entry.name === 'datapackage.json').hash
DatapackageHash(res) ==
  LET i == CHOOSE k \in 1..Len(res) :
             /\ res[k].name = "datapackage.json"
             /\ \A j \in 1..(k - 1) : res[j].name # "datapackage.json"
  IN res[i].hash

\* Faulty variant: the JSON is returned without the format assertion.
RequestSignatureSkipsAssertion(ans) == ans.kind = "http" /\ ans.status = 200

\* requestSignature returns the JSON instead of throwing.
RequestSignatureReturns(ans) ==
  /\ ans.kind = "http"
  /\ ans.status = 200
  /\ AssertValidWACZSignatureFormat(ans.json)

\* writeDatapackageDigestToZip, with the answer of the signing server when a
\* signingUrl is set.
WriteDatapackageDigestToZip(ans) ==
  /\ UNCHANGED <<optionVars, assertVars, addPageError>>
  /\ pc = "writeDatapackageDigestToZip"
  /\ ready = TRUE
  /\ signingUrl = Null <=> ans = NoAnswer
  /\ LET datapackageHash == DatapackageHash(resources)
         digest == [path       |-> "datapackage.json",
                    hash       |-> datapackageHash,
                    signedData |-> IF signingUrl = Null THEN <<>> ELSE <<ans.json>>]
     IN /\ IF signingUrl = Null
           THEN UNCHANGED signerVars
           ELSE /\ fetched' = Append(fetched,
                       [url |-> signingUrl, hash |-> datapackageHash,
                        created |-> datapackageDate, authorization |-> signingToken])
                /\ answer' = ans
        /\ IF (signingUrl # Null /\ ~RequestSignatureReturns(ans)) \/ AppendThrows
           THEN /\ Reject("An error occurred while generating \"datapackage-digest.json\".")
                /\ UNCHANGED zip
           ELSE /\ zip' = Append(zip, Entry("datapackage-digest.json", digest))
                /\ pc' = After("writeDatapackageDigestToZip")
                /\ UNCHANGED error
  /\ UNCHANGED <<ready, detectPages, signingUrl, WARCs, warcRecords, cdxTree,
                 cdxArray, idxArray, pagesTree, pagesArray, resources, finalized,
                 outputExists, datapackageDate, tasks, stale, warcIdx, runs,
                 runStart, nAddPage>>

Finalize ==
  /\ UNCHANGED <<optionVars, signerVars, assertVars, addPageError>>
  /\ pc = "finalize"
  /\ ready = TRUE
  /\ finalized' = TRUE
  /\ pc' = After("finalize")
  /\ UNCHANGED <<ready, detectPages, signingUrl, WARCs, warcRecords, cdxTree,
                 cdxArray, idxArray, pagesTree, pagesArray, resources, zip,
                 outputExists, datapackageDate, error, tasks, stale, warcIdx,
                 runs, runStart, nAddPage>>

\* ------------------------------------------------------------- addPage()
\* The page addPage builds: a fresh id, the url, and the ts when one is given.
ManualPage(pageUrl, pageTs) ==
  [url |-> pageUrl, id |-> "addPage", ts |-> IF pageTs = Null THEN Null ELSE "iso"]

\* The error addPage(url, title, ts) throws, if any: the url is checked
\* before the ts.
AddPageThrows(pageUrl, pageTs) ==
  IF pageUrl \notin URLs THEN "\"url\" must be a valid url."
  ELSE IF pageTs = "invalid"
  THEN "If provided, \"ts\" must be parsable by JavaScript's Date class."
  ELSE Null

\* Faulty variant: the page is inserted as soon as its url is known to be
\* valid, before the ts is parsed.
AddPageInsertsBeforeTs(pageUrl, pageTs) ==
  /\ UNCHANGED <<optionVars, signerVars, assertVars>>
  /\ nAddPage < MaxAddPage
  /\ ready = TRUE
  /\ nAddPage' = nAddPage + 1
  /\ detectPages' = FALSE
  /\ addPageError' = AddPageThrows(pageUrl, pageTs)
  /\ pagesTree' = IF pageUrl \in URLs
                  THEN SetIfNotPresent(pagesTree, pageUrl, ManualPage(pageUrl, Null))
                  ELSE pagesTree
  /\ UNCHANGED <<ready, signingUrl, WARCs, warcRecords, cdxTree, cdxArray,
                 idxArray, pagesArray, resources, zip, finalized, outputExists,
                 datapackageDate, pc, error, tasks, stale, warcIdx, runs,
                 runStart>>

\* addPage(url, title, ts): throws on an invalid url or ts, after it has
\* turned page detection off.
AddPage(pageUrl, pageTs) ==
  /\ UNCHANGED <<optionVars, signerVars, assertVars>>
  /\ nAddPage < MaxAddPage
  /\ ready = TRUE
  /\ nAddPage' = nAddPage + 1
  /\ detectPages' = FALSE
  /\ addPageError' = AddPageThrows(pageUrl, pageTs)
  /\ pagesTree' = IF AddPageThrows(pageUrl, pageTs) = Null
                  THEN SetIfNotPresent(pagesTree, pageUrl, ManualPage(pageUrl, pageTs))
                  ELSE pagesTree
  /\ UNCHANGED <<ready, signingUrl, WARCs, warcRecords, cdxTree, cdxArray,
                 idxArray, pagesArray, resources, zip, finalized, outputExists,
                 datapackageDate, pc, error, tasks, stale, warcIdx, runs,
                 runStart>>

Next ==
  \/ ProcessStart
  \/ \E i \in DOMAIN tasks : TaskResolve(i)
  \/ \E i \in DOMAIN tasks : TaskReject(i)
  \/ \E t \in stale : StaleResolve(t)
  \/ \E t \in stale : StaleReject(t)
  \/ HarvestArraysFromTrees
  \/ WriteIndexesToZip
  \/ WritePagesToZip
  \/ \E readable \in BOOLEAN : WriteWARCToZip(readable)
  \/ WriteDatapackageToZip
  \/ \E ans \in SignerAnswers \cup {NoAnswer} : WriteDatapackageDigestToZip(ans)
  \/ Finalize
  \/ \E pageUrl \in AddPageUrls, pageTs \in TsInputs : AddPage(pageUrl, pageTs)

Spec == Init /\ [][Next]_vars

\* ------------------------------------------------- reading the ZIP back
\* The gzip members a buffer is the concatenation of.
RECURSIVE GzipMembers(_)
GzipMembers(buf) ==
  IF buf = <<>> THEN <<>>
  ELSE LET k == CHOOSE j \in 2..Len(buf) :
                  /\ buf[j] < 0
                  /\ \A h \in 2..(j - 1) : buf[h] >= 0
       IN <<SubSeq(buf, 1, k)>> \o GzipMembers(SubSeq(buf, k + 1, Len(buf)))

RECURSIVE Concat(_)
Concat(ss) == IF ss = <<>> THEN <<>> ELSE Head(ss) \o Concat(Tail(ss))

\* The shards of an index.cdx.gz buffer, decompressed, and all their lines.
Shards(buf) == LET ms == GzipMembers(buf) IN [k \in 1..Len(ms) |-> Gunzip(ms[k])]

DecodedLines(buf) == Concat(Shards(buf))

RECURSIVE SumLengths(_)
SumLengths(idx) == IF idx = <<>> THEN 0 ELSE Head(idx).length + SumLengths(Tail(idx))

Ceil(n, d) == (n + d - 1) \div d

\* writeIndexesToZip has just returned: the last two entries of the ZIP are
\* the index.cdx.gz and index.idx it made out of cdxArray.
IndexesWritten == pc = "writePagesToZip"
WrittenCdx == zip[Len(zip) - 1].data
WrittenIdx == zip[Len(zip)].data.lines

\* The slice of index.cdx.gz an IDX line addresses.
Addressed(buf, line) == SubSeq(buf, line.offset + 1, line.offset + line.length)

\* ------------------------------------------------------------------ claims

\* C1: the shards written by writeIndexesToZip partition cdxArray: decoded
\* and concatenated in order they are cdxArray, and every shard but the last
\* holds exactly ZIP_NUM_SHARED_INDEX_LIMIT lines.
C1_ShardsPartitionCdxArray ==
  IndexesWritten =>
    LET shards == Shards(WrittenCdx)
    IN /\ Concat(shards) = cdxArray
       /\ \A k \in 1..(Len(shards) - 1) : Len(shards[k]) = ZIP_NUM_SHARED_INDEX_LIMIT

\* C2: every IDX line written addresses a gzip member that holds at least
\* one CDXJ line, and its key is the first token of the member's first line.
C2_IdxLineAddressesItsShard ==
  IndexesWritten =>
    \A k \in 1..Len(WrittenIdx) :
      LET m == Addressed(WrittenCdx, WrittenIdx[k])
      IN /\ IsGzipMember(m)
         /\ Gunzip(m) # <<>>
         /\ WrittenIdx[k].key = FirstToken(Gunzip(m)[1])

\* C3: for n lines writeIndexesToZip writes ceil(n / ZIP_NUM_SHARED_INDEX_LIMIT)
\* shards and as many IDX lines; the first offset is 0, each later offset is
\* the previous offset plus the previous length, and the lengths add up to
\* the size of index.cdx.gz.
C3_ShardCountAndOffsets ==
  IndexesWritten =>
    LET n == Ceil(Len(cdxArray), ZIP_NUM_SHARED_INDEX_LIMIT)
    IN /\ Len(GzipMembers(WrittenCdx)) = n
       /\ Len(WrittenIdx) = n
       /\ WrittenIdx # <<>> => WrittenIdx[1].offset = 0
       /\ \A k \in 2..Len(WrittenIdx) :
            WrittenIdx[k].offset = WrittenIdx[k - 1].offset + WrittenIdx[k - 1].length
       /\ SumLengths(WrittenIdx) = Len(WrittenCdx)

\* The entries the current process() call has appended, and their names.
RunEntries == SubSeq(zip, runStart + 1, Len(zip))
RunNames == [k \in 1..Len(RunEntries) |-> RunEntries[k].name]

\* The entry names of a complete run, in the order of section 4.G.
CanonicalNames ==
  <<"indexes/index.cdx.gz", "indexes/index.idx", "pages/pages.jsonl">>
    \o [i \in 1..Len(WARCs) |-> ArchivePath(WARCs[i])]
    \o <<"datapackage.json", "datapackage-digest.json">>

Recorded(entry) ==
  \E j \in 1..Len(resources) :
    resources[j].path = entry.name /\ resources[j].hash = Sha256(entry.data)

\* No input file holds a record that indexes to a CDXJ line.
NoCdxjLine == \A f \in Range(WARCs) : warcRecords[f] = {}

InitNoCdxj == Init /\ \A f \in Files : warcRecords[f] = {}

\* The runs whose input yields no CDXJ line.
SpecNoCdxj == InitNoCdxj /\ [][Next]_vars

\* C4 as stated: with no CDXJ line a completed run has appended the six
\* canonical entries, index.cdx.gz is zero bytes, index.idx and pages.jsonl
\* are their header line alone, and the three are recorded in resources.
C4_EmptyIndexHeaderOnly ==
  (pc = "done" /\ NoCdxjLine) =>
    /\ RunNames = CanonicalNames
    /\ RunEntries[1].data = <<>>
    /\ RunEntries[2].data = Text(IdxHeader, <<>>)
    /\ RunEntries[3].data = Text(PagesHeader, <<>>)
    /\ \A k \in 1..3 : Recorded(RunEntries[k])

\* C4 amended: as C4, but pages.jsonl holds after its header the pages that
\* were added with addPage, and is the header alone when addPage was not called.
C4_EmptyIndexManualPagesOnly ==
  (pc = "done" /\ NoCdxjLine) =>
    /\ RunNames = CanonicalNames
    /\ RunEntries[1].data = <<>>
    /\ RunEntries[2].data = Text(IdxHeader, <<>>)
    /\ RunEntries[3].data.header = PagesHeader
    /\ \A k \in 1..Len(RunEntries[3].data.lines) :
         RunEntries[3].data.lines[k].id = "addPage"
    /\ nAddPage = 0 => RunEntries[3].data.lines = <<>>
    /\ \A k \in 1..3 : Recorded(RunEntries[k])

C4_Witness ==
  /\ pc = "done"
  /\ NoCdxjLine
  /\ RunEntries[1].data = <<>>
  /\ Len(RunEntries[3].data.lines) = 1

\* C5: the CDXJ lines of every index.cdx.gz appended are strictly ascending.
C5_CdxLinesStrictlyAscending ==
  \A k \in 1..Len(zip) :
    zip[k].name = "indexes/index.cdx.gz" => IsStrictlyAscending(DecodedLines(zip[k].data))

\* Two files returned the same line, and an index.cdx.gz of several lines
\* was written.
C5_Witness ==
  /\ warcRecords[1] \cap warcRecords[2] # {}
  /\ \E k \in 1..Len(zip) :
       zip[k].name = "indexes/index.cdx.gz" /\ Len(DecodedLines(zip[k].data)) >= 2

\* C6: whatever the order the tasks completed in, the harvested cdxArray is
\* the sorted set of the lines of the input files, and the urls of pagesArray
\* are in ascending order.
C6_HarvestIndependentOfCompletionOrder ==
  pc = "writeIndexesToZip" =>
    /\ cdxArray = SortSet(UNION {warcRecords[f] : f \in Range(WARCs)})
    /\ IsStrictlyAscending([k \in 1..Len(pagesArray) |-> pagesArray[k].url])

\* Harvested after the task dispatched last completed first: its page is the
\* one kept for a url both files hold.
C6_Witness ==
  /\ pc = "writeIndexesToZip"
  /\ Len(cdxArray) >= 2
  /\ Len(pagesArray) >= 2
  /\ 1 \in warcRecords[WARCs[1]] \cap warcRecords[WARCs[2]]
  /\ pagesArray[1].id = Basename(WARCs[2])

\* C7: a second process() on the instance fails at once and appends nothing
\* to the ZIP, to resources or to idxArray.
C7_SecondProcessFails ==
  [][runs' >= 2 =>
       /\ pc' = "failed"
       /\ zip' = zip
       /\ resources' = resources
       /\ idxArray' = idxArray]_vars

\* C8: when a step of process() fails the run stops without finalizing the
\* ZIP and the partially written output file is removed.
C8_FailureRemovesOutput ==
  [][(pc' = "failed" /\ pc # "failed") =>
       /\ finalized' = finalized
       /\ outputExists' = FALSE]_vars

\* The detectPages the tasks of the current run were dispatched with.
RunDetectPages == tasks[1].detectPages

Harvested ==
  pc \in {"writeIndexesToZip", "writePagesToZip", "writeWARCsToZip",
          "writeDatapackageToZip", "writeDatapackageDigestToZip", "finalize", "done"}

\* C9: once addPage was called detectPages is false, and a run whose tasks
\* were dispatched after it, with detection off, harvests only pages that
\* were added with addPage.
C9_OnlyManualPagesAfterAddPage ==
  /\ nAddPage > 0 => detectPages = FALSE
  /\ (Harvested /\ nAddPage > 0 /\ RunDetectPages = FALSE) =>
       \A k \in 1..Len(pagesArray) : pagesArray[k].id = "addPage"

EntryByteLength(entry) ==
  CASE entry.name = "indexes/index.cdx.gz" -> Len(entry.data)
    [] entry.name \in {"indexes/index.idx", "pages/pages.jsonl"} ->
         TextByteLength(entry.data)
    [] entry.name = "datapackage.json" -> DatapackageByteLength(entry.data)
    [] OTHER -> FileSize(warcRecords, entry.data.warc)

\* C11: every record of resources has the SHA-256 and the byte length of
\* the content that was appended to the ZIP at its path.
C11_ResourceHashAndBytes ==
  \A k \in 1..Len(resources) :
    \E j \in 1..Len(zip) :
      /\ zip[j].name = resources[k].path
      /\ resources[k].hash = Sha256(zip[j].data)
      /\ resources[k].bytes = <<EntryByteLength(zip[j])>>


\* C12: every datapackage-digest.json appended has the path datapackage.json
\* and the SHA-256 of the datapackage.json that the same run appended, which
\* is the entry right before it.
C12_DigestHashesDatapackage ==
  \A k \in 1..Len(zip) :
    zip[k].name = "datapackage-digest.json" =>
      /\ zip[k].data.path = "datapackage.json"
      /\ k > 1
      /\ zip[k - 1].name = "datapackage.json"
      /\ zip[k].data.hash = Sha256(zip[k - 1].data)


\* A step that appends datapackage-digest.json, and a step in which
\* writeDatapackageDigestToZip returns or throws.
DigestAppended ==
  /\ Len(zip') = Len(zip) + 1
  /\ zip'[Len(zip')].name = "datapackage-digest.json"

DigestStep == pc = "writeDatapackageDigestToZip" /\ pc' # pc

\* C13: with a signing server, datapackage-digest.json is only appended when
\* the server answered 200 with a JSON that passes the format assertion, and
\* its signedData is that JSON; when the request fails, the status is not 200
\* or the JSON fails the assertion, the step fails, appends nothing and the
\* ZIP is not finalized.  Without a signing server no request is sent and
\* the digest has no signedData.
C13_DigestOnlyWithValidSignature ==
  [][/\ (DigestAppended /\ signingUrl # Null) =>
          /\ Len(fetched') = Len(fetched) + 1
          /\ answer'.kind = "http" /\ answer'.status = 200
          /\ AssertValidWACZSignatureFormat(answer'.json)
          /\ zip'[Len(zip')].data.signedData = <<answer'.json>>
     /\ (DigestStep /\ signingUrl # Null
           /\ ~(answer'.kind = "http" /\ answer'.status = 200
                  /\ AssertValidWACZSignatureFormat(answer'.json))) =>
          /\ pc' = "failed"
          /\ zip' = zip
          /\ finalized' = FALSE
     /\ (DigestStep /\ signingUrl = Null) =>
          /\ fetched' = fetched
          /\ fetched = <<>>
          /\ DigestAppended
          /\ zip'[Len(zip')].data.signedData = <<>>]_vars

\* A run completed with a domain-identified signature after the signing
\* request of an earlier run had failed.
C13_Witness ==
  /\ pc = "done"
  /\ Len(fetched) = 2
  /\ zip[Len(zip)].name = "datapackage-digest.json"
  /\ zip[Len(zip)].data.signedData = <<DomainSignature>>


\* ------------------------------------- assertValidWACZSignatureFormat alone
\* The values a signing server may put under each key.
SignedDataSamples ==
  [hash            : {Undefined, Str(<<"<sha256>">>), Str(<<"<sha256>", "x">>)},
   created         : {Undefined, Str(<<"<date>">>), Str(<<"x", "<date>">>), Num},
   software        : {Undefined, Str(<<>>), Str(<<"s">>), Num},
   signature       : {Undefined, Str(<<>>), Str(<<"A", "A", "A", "=">>), Str(<<"!">>)},
   publicKey       : {Undefined, Str(<<>>), Str(<<"A", "A", "=", "=">>), Str(<<"A">>)},
   domain          : {Undefined, Str(<<"<domain>">>), Str(<<"x", "<domain>">>)},
   domainCert      : {Undefined, Str(<<"<cert>">>), Str(<<"x">>)},
   timeSignature   : {Undefined, Str(<<"A", "A", "A", "A">>)},
   timestampCert   : {Undefined, Str(<<"<cert>">>)},
   crossSignedCert : {Undefined, Str(<<>>), Str(<<"<cert>">>), Str(<<"x">>)}]

\* A caller about to hand a JSON object to assertValidWACZSignatureFormat.
InitAssert ==
  /\ FieldInitializers(DefaultOptions)
  /\ outputExists = FALSE
  /\ warcRecords = [f \in Files |-> {}]
  /\ signedData \in SignedDataSamples
  /\ verdict = "none"

\* assertValidWACZSignatureFormat(signedData) returns or throws.
AssertSignatureFormat ==
  /\ verdict = "none"
  /\ verdict' = IF AssertValidWACZSignatureFormat(signedData) THEN "returned" ELSE "threw"
  /\ UNCHANGED <<ready, detectPages, signingUrl, WARCs, warcRecords, cdxTree,
                 cdxArray, idxArray, pagesTree, pagesArray, resources, zip,
                 finalized, outputExists, datapackageDate, pc, error, tasks,
                 stale, warcIdx, runs, runStart, nAddPage, addPageError,
                 optionVars, signerVars, signedData>>

SpecAssert == InitAssert /\ [][AssertSignatureFormat]_vars

\* What the format of a signature asks of a value: a Base64 value, and a
\* string that is a hash, a date, a domain name or a certificate chain as a
\* whole.
IsBase64Value(val) == MatchBase64(val) /\ val.chars # <<>>
IsWhole(val, piece) == val = Str(<<piece>>)

\* C14: assertValidWACZSignatureFormat returns if and only if hash, created,
\* software (a non-empty string) and signature are valid, publicKey is valid
\* Base64 or domain, domainCert, timeSignature and timestampCert are all
\* valid, and crossSignedCert is valid when it is present; otherwise it throws.
C14_AcceptsExactlyValidSignatures ==
  verdict # "none" =>
    (verdict = "returned" <=>
       /\ IsWhole(signedData.hash, "<sha256>")
       /\ IsWhole(signedData.created, "<date>")
       /\ signedData.software.type = "string" /\ signedData.software.chars # <<>>
       /\ IsBase64Value(signedData.signature)
       /\ \/ IsBase64Value(signedData.publicKey)
          \/ /\ IsWhole(signedData.domain, "<domain>")
             /\ IsWhole(signedData.domainCert, "<cert>")
             /\ IsBase64Value(signedData.timeSignature)
             /\ IsWhole(signedData.timestampCert, "<cert>")
       /\ signedData.crossSignedCert.type # "undefined" =>
            IsWhole(signedData.crossSignedCert, "<cert>"))


\* ------------------------------------------------------ the constructor alone
AllOptions ==
  [file : FileOptions, output : OutputOptions, detectPages : DetectPagesOptions,
   url : UrlOptions, ts : TsOptions, title : TitleOptions,
   description : DescriptionOptions, signingUrl : SigningUrlOptions,
   signingToken : SigningTokenOptions, datapackageExtras : ExtrasOptions]

\* new WACZ(options) is about to run, on any options.
InitConstruct ==
  /\ \E opts \in AllOptions : FieldInitializers(opts)
  /\ warcRecords = [f \in Files |-> {}]
  /\ signedData = NoJson
  /\ verdict = "none"

SpecConstruct == InitConstruct /\ [][Constructor]_vars

\* The optional options of C15 that were given with an invalid value.
InvalidOptions ==
  {name \in {"url", "ts", "signingUrl", "detectPages"} : options[name] = "foo"}
    \cup {name \in {"datapackageExtras"} : options[name] = "circular"}

\* The required options allow the construction.
RequiredOptionsValid ==
  /\ options.file \in {"x/*", "*/a.warc.gz"}
  /\ options.output \in {Null, "out.wacz"}

\* C15: an invalid url, ts, signingUrl, datapackageExtras or detectPages
\* does not make the construction fail; the field keeps its default, one
\* warning is logged for it, and a valid value is stored in the field.
C15_InvalidOptionalOptionIgnored ==
  (constructed # "pending" /\ RequiredOptionsValid) =>
    /\ constructed = "returned"
    /\ ready = TRUE
    /\ Len(warnings) = Cardinality(InvalidOptions)
    /\ url = (IF options.url \in {Null, "foo"} THEN Null ELSE Href(options.url))
    /\ ts = (IF options.ts \in {Null, "foo"} THEN ConstructionTime
             ELSE ToISOString(options.ts))
    /\ signingUrl = (IF options.signingUrl \in {Null, "foo"} THEN Null
                     ELSE Href(options.signingUrl))
    /\ datapackageExtras = (IF options.datapackageExtras \in {Null, "circular"}
                            THEN Null ELSE options.datapackageExtras)
    /\ detectPages = (options.detectPages # "false")

\* C16: when the input resolves to no WARC or the output does not end in
\* .wacz the constructor throws, ready stays false, no output stream and no
\* worker pool are created, and a file at the output path is left alone.
C16_InvalidRequiredOptionThrows ==
  [][(constructed = "pending" /\ constructed' # "pending"
        /\ (options.file \in {Null, "x/*.txt"} \/ options.output = "out.zip")) =>
       /\ constructed' = "threw"
       /\ ready' = FALSE
       /\ outputStream' = FALSE
       /\ indexWARCPool' = FALSE
       /\ outputExists' = outputExists]_vars

\* The constructor threw on an output path that is no .wacz, where a file is.
C16_Witness ==
  /\ constructed = "threw"
  /\ options.file = "x/*"
  /\ options.output = "out.zip"
  /\ outputExists


\* ------------------------------------------- construction, then process()
\* The callers who give valid required options, any of the options that go
\* into datapackage.json, and input files that may share a basename.
RunOptions ==
  {[DefaultOptions EXCEPT !.file = f, !.url = u, !.ts = t, !.title = ti,
                          !.description = d, !.datapackageExtras = x] :
     f \in {"x/*", "*/a.warc.gz"}, u \in UrlOptions, t \in TsOptions,
     ti \in TitleOptions, d \in DescriptionOptions, x \in ExtrasOptions}

InitRun ==
  /\ \E opts \in RunOptions : FieldInitializers(opts)
  /\ outputExists = FALSE
  /\ warcRecords = [f \in Files |-> IF f = 1 THEN {l \in Lines : l <= 1}
                                    ELSE {l \in Lines : l >= 2}]
  /\ signedData = NoJson
  /\ verdict = "none"

NextRun == Constructor \/ Next

SpecRun == InitRun /\ [][NextRun]_vars

\* C17: the names of the entries appended to the ZIP are pairwise distinct.
C17_EntryNamesDistinct ==
  \A i, j \in 1..Len(zip) : i # j => zip[i].name # zip[j].name


\* The datapackage.json entries of the ZIP.
Datapackages == {zip[k].data : k \in {j \in 1..Len(zip) : zip[j].name = "datapackage.json"}}

\* C18: datapackage.json has mainPageUrl, mainPageDate and extras exactly
\* when the url, ts and datapackageExtras options were given and valid, with
\* the validated value; title is the title given or 'WACZ', description the
\* description given or ''.
C18_DatapackageOptionalFields ==
  \A d \in Datapackages :
    /\ d.mainPageUrl = (IF options.url \in {Null, "foo"} THEN <<>>
                        ELSE <<Href(options.url)>>)
    /\ d.mainPageDate = (IF options.ts \in {Null, "foo"} THEN <<>>
                         ELSE <<ToISOString(options.ts)>>)
    /\ d.extras = (IF options.datapackageExtras \in {Null, "circular"} THEN <<>>
                   ELSE <<options.datapackageExtras>>)
    /\ d.title = (IF options.title = Null THEN "WACZ" ELSE Trim(options.title))
    /\ d.description = (IF options.description = Null THEN ""
                        ELSE Trim(options.description))

\* C19: datapackage.json declares the profile 'data-package', next to the
\* title, description, mainPageUrl, mainPageDate and extras that were given
\* as options.
C19_DatapackageProfile ==
  \A d \in Datapackages :
    /\ "profile" \in DOMAIN d
    /\ d.profile = "data-package"
    /\ options.title # Null => d.title = Trim(options.title)
    /\ options.description # Null => d.description = Trim(options.description)
    /\ options.url \notin {Null, "foo"} => d.mainPageUrl = <<Href(options.url)>>
    /\ options.ts \notin {Null, "foo"} => d.mainPageDate = <<ToISOString(options.ts)>>
    /\ options.datapackageExtras \notin {Null, "circular"} =>
         d.extras = <<options.datapackageExtras>>


\* The names of the entries appended so far other than the digest, in order.
RecordedEntryNames ==
  LET NotDigest(entry) == entry.name # "datapackage-digest.json"
      kept == SelectSeq(zip, NotDigest)
  IN [k \in 1..Len(kept) |-> kept[k].name]

\* C20: the paths in resources are the names of the entries appended so far
\* other than datapackage-digest.json, each once and in the order of
\* appending; no entry is in the ZIP without its resource record, also after
\* a step failed part-way.
C20_ResourcesMirrorEntries ==
  /\ [k \in 1..Len(resources) |-> resources[k].path] = RecordedEntryNames
  /\ \A j, k \in 1..Len(resources) :
       resources[j].path = resources[k].path => j = k


\* writeDatapackageToZip has just returned: the last entry of the ZIP is the
\* datapackage.json it serialized.
DatapackageWritten == pc = "writeDatapackageDigestToZip"
WrittenManifest == zip[Len(zip)].data.resources

\* C21: the resources serialized in datapackage.json are the records of the
\* entries the run appended before datapackage.json (indexes, pages, every
\* archive/ file), in the order of appending, and no record of
\* datapackage.json itself is among them.
C21_ManifestListsPrecedingEntries ==
  DatapackageWritten =>
    LET before == SubSeq(RunEntries, 1, Len(RunEntries) - 1)
    IN /\ Len(WrittenManifest) = Len(before)
       /\ \A k \in 1..Len(before) :
            /\ k <= Len(WrittenManifest)
            /\ WrittenManifest[k].path = before[k].name
            /\ WrittenManifest[k].hash = Sha256(before[k].data)
       /\ \A k \in 1..Len(WrittenManifest) : WrittenManifest[k].name # "datapackage.json"


\* process() was rejected by a failed worker task and has not been called
\* again.
IndexingFailed == pc = "failed" /\ error = "indexWARC failed."

\* C22: when a worker task fails, indexWARCs fails with that error, the
\* outstanding tasks are cancelled and the partial indexes are discarded: no
\* task is left to complete, cdxTree is empty and pagesTree holds no page of
\* a worker, at the failure and for as long as the run stays failed.
C22_FailedIndexingDiscardsPartialIndexes ==
  IndexingFailed =>
    /\ stale = {}
    /\ cdxTree = <<>>
    /\ \A k \in 1..Len(pagesTree) : pagesTree[k].value.id = "addPage"


\* writePagesToZip has just returned: the last entry of the ZIP is the
\* pages.jsonl it made out of pagesArray.
PagesWritten == pc = "writeWARCsToZip" /\ warcIdx = 0
WrittenPages == zip[Len(zip)].data.lines

\* The urls of the pages the tasks of the current run returned.
RunWorkerUrls ==
  UNION {{IndexWARC(warcRecords, WARCs[i], tasks[i].detectPages).pages[k].url :
            k \in 1..Len(IndexWARC(warcRecords, WARCs[i], tasks[i].detectPages).pages)} :
         i \in DOMAIN tasks}

RecordedDatapackageHash ==
  LET i == CHOOSE k \in 1..Len(resources) :
             /\ resources[k].name = "datapackage.json"
             /\ \A j \in (k + 1)..Len(resources) : resources[j].name # "datapackage.json"
  IN resources[i].hash

\* C24: datapackageDate is null until writeDatapackageToZip runs, is set
\* there once, to the value serialized as `created` in datapackage.json, and
\* never changes afterwards; a signing request is only sent once it is set,
\* and carries it as `created` together with the recorded hash of
\* datapackage.json.
C24_DatapackageDateSetOnce ==
  [][/\ datapackageDate' # datapackageDate =>
          /\ datapackageDate = Null
          /\ pc = "writeDatapackageToZip"
     /\ (pc = "writeDatapackageToZip" /\ DatapackageWritten') =>
          /\ datapackageDate' # Null
          /\ zip'[Len(zip')].data.created = datapackageDate'
     /\ fetched' # fetched =>
          /\ datapackageDate # Null
          /\ fetched' = Append(fetched, fetched'[Len(fetched')])
          /\ fetched'[Len(fetched')].created = datapackageDate
          /\ fetched'[Len(fetched')].hash = RecordedDatapackageHash]_vars


\* ------------------------------------- construction with a signing server
\* The options of a caller who gives the input files and the output path,
\* and may give a signingUrl and a signingToken.
SigningOptions ==
  {[DefaultOptions EXCEPT !.signingUrl = u, !.signingToken = t] :
     u \in SigningUrlOptions, t \in SigningTokenOptions}

InitSign ==
  /\ \E opts \in SigningOptions : FieldInitializers(opts)
  /\ outputExists = FALSE
  /\ warcRecords = [f \in Files |-> IF f = 1 THEN {l \in Lines : l <= 1}
                                    ELSE {l \in Lines : l >= 2}]
  /\ signedData = NoJson
  /\ verdict = "none"

SpecSign == InitSign /\ [][NextRun]_vars

\* C25: signingToken is kept only when the same construction accepted a
\* valid signingUrl: a token given without a signingUrl, or with an invalid
\* one, leaves signingToken null; and a signing request carries an
\* Authorization header, holding the token, only when signingToken is set.
C25_TokenOnlyWithSigningUrl ==
  /\ signingToken # Null =>
       /\ constructed = "returned"
       /\ signingToken = options.signingToken
       /\ options.signingUrl # Null
       /\ IsURL(options.signingUrl)
       /\ signingUrl = Href(options.signingUrl)
  /\ (constructed = "returned" /\ options.signingToken # Null
        /\ options.signingUrl # Null /\ IsURL(options.signingUrl)) =>
       signingToken = options.signingToken
  /\ \A k \in 1..Len(fetched) :
       /\ fetched[k].authorization = signingToken
       /\ fetched[k].url = signingUrl

\* A signing request was sent with the token as its Authorization header.
C25_Witness ==
  /\ fetched # <<>>
  /\ fetched[Len(fetched)].authorization = "token"
  /\ options.signingToken = "token"


\* The CDXJ lines the tasks of the run return: the lines of every input file.
RunCdxLines == UNION {Range(IndexWARC(warcRecords, WARCs[i], FALSE).cdx) : i \in DOMAIN tasks}

\* C26: in a run where no task fails the arrays are harvested only after
\* the result of every input file's task was merged: process() reaches the
\* harvest with no task still running and every line of every task in
\* cdxTree, and the harvest puts every one of them in cdxArray, whatever
\* the order in which the tasks completed.
C26_HarvestAfterEveryTaskMerged ==
  [][/\ (pc = "indexWARCs" /\ pc' = "harvestArraysFromTrees") =>
          /\ \A i \in DOMAIN tasks : tasks'[i].state # "running"
          /\ \A i \in DOMAIN tasks \ {i2 \in DOMAIN tasks : tasks[i2].state = "running"} :
               tasks[i].state = "done"
          /\ Cardinality({i \in DOMAIN tasks : tasks[i].state = "running"}) = 1
          /\ RunCdxLines \subseteq Range(KeysArray(cdxTree'))
     /\ (pc = "harvestArraysFromTrees" /\ pc' # pc) =>
          /\ pc' = "writeIndexesToZip"
          /\ RunCdxLines \subseteq Range(cdxArray')]_vars

\* Harvested in a run of two files each holding a line the other lacks:
\* cdxArray has the lines of both.
C26_Witness ==
  /\ pc = "writeIndexesToZip"
  /\ warcRecords[WARCs[1]] \ warcRecords[WARCs[2]] # {}
  /\ warcRecords[WARCs[2]] \ warcRecords[WARCs[1]] # {}
  /\ Len(cdxArray) = MaxLine


\* C27: an addPage call with an invalid url or a ts that cannot be parsed
\* throws and inserts nothing into the pages index, and detectPages is false
\* after every addPage call, the ones that threw included.
C27_FailedAddPageInsertsNothing ==
  [][/\ nAddPage' # nAddPage =>
          /\ \A pageUrl \in AddPageUrls, pageTs \in TsInputs :
               (AddPage(pageUrl, pageTs) /\ (pageUrl \notin URLs \/ pageTs = "invalid")) =>
                 addPageError' # Null
          /\ addPageError' # Null => pagesTree' = pagesTree
          /\ detectPages' = FALSE
     /\ nAddPage' > 0 => detectPages' = FALSE]_vars

\* addPage was called with a valid url and a ts that does not parse on an
\* instance that was detecting pages: it threw, no page of addPage is in the
\* index and detection is off.
C27_Witness ==
  /\ addPageError = "If provided, \"ts\" must be parsable by JavaScript's Date class."
  /\ options.detectPages = Null
  /\ detectPages = FALSE
  /\ \A k \in 1..Len(pagesTree) : pagesTree[k].value.id # "addPage"
  /\ \A k \in 1..Len(pagesArray) : pagesArray[k].id # "addPage"

=============================================================================
